---- MODULE Spec2Model ----
(***************************************************************************)
(* A model of the OCR -> LLM -> answer fan-out desktop program             *)
(* (app_ctk.py, llm_client.py, config.py).                                 *)
(*                                                                         *)
(* Text is modelled character by character over a small alphabet:          *)
(*   "a" "n" "t" "N"  ordinary ASCII letters ("t" also abbreviates the     *)
(*                    format field name text, "N" the base name            *)
(*                    New Prompt)                                          *)
(*   "0" .. "9"       digits                                               *)
(*   "E"              one non-ASCII character (such as e-acute)            *)
(*   " " "nl" "tab"   whitespace: space, newline, tab                      *)
(*   "\"" "\\" "{" "}" ":" "," "[" "]"  themselves                         *)
(* A file holds bytes: an ASCII character is its own byte, and "E" is the  *)
(* two bytes of its UTF-8 encoding, "xC3xA9"; "xC3" alone is a truncated   *)
(* encoding.                                                               *)
(***************************************************************************)
EXTENDS Integers, Sequences, FiniteSets, TLC

\* ------------------------------------------------------------------ bounds
MaxPromptOps == 4
MaxRuns == 2
MaxClock == 1
MaxCalls == 2

\* ------------------------------------------------------------- str methods
Whitespace == {" ", "nl", "tab"}
DigitChars == <<"1", "2", "3", "4", "5", "6", "7", "8", "9">>
Digits == {"0"} \cup {DigitChars[i] : i \in 1..9}

\* str.strip() of the leading whitespace
RECURSIVE LStrip(_)
LStrip(s) ==
    IF s # <<>> /\ Head(s) \in Whitespace THEN LStrip(Tail(s)) ELSE s

\* str.strip() of the trailing whitespace
RECURSIVE RStrip(_)
RStrip(s) ==
    IF s # <<>> /\ s[Len(s)] \in Whitespace
    THEN RStrip(SubSeq(s, 1, Len(s) - 1)) ELSE s

\* str.strip()
Strip(s) == RStrip(LStrip(s))

\* whether the character sequence sub occurs in s (Python's  sub in s)
Contains(s, sub) ==
    \E i \in 1..(Len(s) + 1) :
        /\ i + Len(sub) - 1 <= Len(s)
        /\ SubSeq(s, i, i + Len(sub) - 1) = sub

\* first index >= i of character c in s, or 0 (str.find)
RECURSIVE Find(_, _, _)
Find(s, c, i) ==
    IF i > Len(s) THEN 0 ELSE IF s[i] = c THEN i ELSE Find(s, c, i + 1)

\* ------------------------------------------------------------ str.format
\* prompt_template.format(text=text): the only keyword argument is text
\* (field name "t"); there are no positional arguments.  The result is
\* [ok |-> TRUE, val |-> rendered] or [ok |-> FALSE] when format raises
\* (ValueError for a single brace, KeyError for another field name,
\* IndexError for an empty or numeric field name).
RECURSIVE FormatFrom(_, _, _, _)
FormatFrom(tpl, i, text, acc) ==
    IF i > Len(tpl) THEN [ok |-> TRUE, val |-> acc]
    ELSE IF tpl[i] = "{" THEN
        IF i + 1 <= Len(tpl) /\ tpl[i + 1] = "{"
        THEN FormatFrom(tpl, i + 2, text, Append(acc, "{"))
        ELSE LET j == Find(tpl, "}", i + 1)
                 field == SubSeq(tpl, i + 1, j - 1)
             IN IF j = 0 THEN [ok |-> FALSE]
                ELSE IF \E k \in 1..Len(field) : field[k] = "{"
                     THEN [ok |-> FALSE]
                ELSE IF field = <<"t">>
                     THEN FormatFrom(tpl, j + 1, text, acc \o text)
                ELSE [ok |-> FALSE]
    ELSE IF tpl[i] = "}" THEN
        IF i + 1 <= Len(tpl) /\ tpl[i + 1] = "}"
        THEN FormatFrom(tpl, i + 2, text, Append(acc, "}"))
        ELSE [ok |-> FALSE]
    ELSE FormatFrom(tpl, i + 1, text, Append(acc, tpl[i]))

Format(tpl, text) == FormatFrom(tpl, 1, text, <<>>)

\* ------------------------------------------------ ordered dict[str, str]
\* A Python dict keeps insertion order: a sequence of entries with
\* pairwise distinct names.
Entry(k, v) == [name |-> k, body |-> v]

DictKeys(d) == [i \in 1..Len(d) |-> d[i].name]

HasKey(d, k) == \E i \in 1..Len(d) : d[i].name = k

\* d.get(k, default)
DictGet(d, k, default) ==
    IF HasKey(d, k)
    THEN d[CHOOSE i \in 1..Len(d) : d[i].name = k].body
    ELSE default

\* d[k] = v : in place when k is present, appended otherwise
DictPut(d, k, v) ==
    IF HasKey(d, k)
    THEN [i \in 1..Len(d) |-> IF d[i].name = k THEN Entry(k, v) ELSE d[i]]
    ELSE Append(d, Entry(k, v))

\* del d[k]
DictDel(d, k) == SelectSeq(d, LAMBDA e : e.name # k)

\* d.update(e)
RECURSIVE DictUpdate(_, _)
DictUpdate(d, e) ==
    IF e = <<>> THEN d
    ELSE DictUpdate(DictPut(d, Head(e).name, Head(e).body), Tail(e))

\* the entries of d as a set (order forgotten)
Entries(d) == {d[i] : i \in 1..Len(d)}

\* ---------------------------------------------------------------- UTF-8
\* open(..., "w", encoding="utf-8"): each character to its bytes; the
\* two bytes of "E" are kept together as one element, "xC3xA9"
Utf8Encode(s) ==
    [i \in 1..Len(s) |-> IF s[i] = "E" THEN "xC3xA9" ELSE s[i]]

\* open(..., "r", encoding="utf-8"): bytes to characters, or
\* [ok |-> FALSE] for UnicodeDecodeError (a lone "xC3" or "xA9")
Utf8Decode(b) ==
    IF \E i \in 1..Len(b) : b[i] \in {"xC3", "xA9"} THEN [ok |-> FALSE]
    ELSE [ok |-> TRUE,
          val |-> [i \in 1..Len(b) |-> IF b[i] = "xC3xA9" THEN "E" ELSE b[i]]]

\* ------------------------------------------------------------ json.dump
\* JsonEscape with the backslash left as it is
RECURSIVE JsonEscapeKeepsBackslash(_)
JsonEscapeKeepsBackslash(s) ==
    IF s = <<>> THEN <<>>
    ELSE (CASE Head(s) = "\"" -> <<"\\", "\"">>
            [] Head(s) = "nl" -> <<"\\", "n">>
            [] Head(s) = "tab" -> <<"\\", "t">>
            [] OTHER -> <<Head(s)>>)
         \o JsonEscapeKeepsBackslash(Tail(s))

\* a JSON string literal with ensure_ascii=False: only the quote, the
\* backslash and control characters are escaped
RECURSIVE JsonEscape(_)
JsonEscape(s) ==
    IF s = <<>> THEN <<>>
    ELSE (CASE Head(s) = "\"" -> <<"\\", "\"">>
            [] Head(s) = "\\" -> <<"\\", "\\">>
            [] Head(s) = "nl" -> <<"\\", "n">>
            [] Head(s) = "tab" -> <<"\\", "t">>
            [] OTHER -> <<Head(s)>>)
         \o JsonEscape(Tail(s))

JsonString(s) == <<"\"">> \o JsonEscape(s) \o <<"\"">>

RECURSIVE JsonItems(_)
JsonItems(d) ==
    IF d = <<>> THEN <<>>
    ELSE <<" ", " ">> \o JsonString(Head(d).name) \o <<":", " ">>
         \o JsonString(Head(d).body)
         \o (IF Len(d) > 1 THEN <<",", "nl">> ELSE <<"nl">>)
         \o JsonItems(Tail(d))

\* json.dumps(prompts, ensure_ascii=False, indent=2)
JsonDump(d) ==
    IF d = <<>> THEN <<"{", "}">>
    ELSE <<"{", "nl">> \o JsonItems(d) \o <<"}">>

\* ------------------------------------------------------------ json.load
\* A parse result is [ok |-> FALSE] (JSONDecodeError) or
\* [ok |-> TRUE, val |-> v, next |-> index after the value].
RECURSIVE SkipWs(_, _)
SkipWs(s, i) ==
    IF i <= Len(s) /\ s[i] \in Whitespace THEN SkipWs(s, i + 1) ELSE i

\* the characters of a string literal whose opening quote is before i
RECURSIVE ParseChars(_, _, _)
ParseChars(s, i, acc) ==
    IF i > Len(s) THEN [ok |-> FALSE]
    ELSE IF s[i] = "\"" THEN [ok |-> TRUE, val |-> acc, next |-> i + 1]
    ELSE IF s[i] \in {"nl", "tab"} THEN [ok |-> FALSE]
    ELSE IF s[i] = "\\" THEN
        IF i + 1 > Len(s) THEN [ok |-> FALSE]
        ELSE CASE s[i + 1] \in {"\"", "\\"} ->
                    ParseChars(s, i + 2, Append(acc, s[i + 1]))
               [] s[i + 1] = "n" -> ParseChars(s, i + 2, Append(acc, "nl"))
               [] s[i + 1] = "t" -> ParseChars(s, i + 2, Append(acc, "tab"))
               [] OTHER -> [ok |-> FALSE]
    ELSE ParseChars(s, i + 1, Append(acc, s[i]))

RECURSIVE ParseDigits(_, _, _)
ParseDigits(s, i, acc) ==
    IF i <= Len(s) /\ s[i] \in Digits
    THEN ParseDigits(s, i + 1, Append(acc, s[i]))
    ELSE [ok |-> TRUE, val |-> <<"int">> \o acc, next |-> i]

\* a member value: a string or a number (a number n is kept as the
\* sequence <<"int", n>>, which no string is, "int" being no character)
ParseScalar(s, i) ==
    IF i > Len(s) THEN [ok |-> FALSE]
    ELSE IF s[i] = "\"" THEN ParseChars(s, i + 1, <<>>)
    ELSE IF s[i] \in Digits THEN ParseDigits(s, i, <<>>)
    ELSE [ok |-> FALSE]

\* the members of an object after its opening brace; first says whether
\* a closing brace may come here (no member yet)
RECURSIVE ParseMembers(_, _, _, _)
ParseMembers(s, i0, first, acc) ==
    LET i == SkipWs(s, i0) IN
    IF i > Len(s) THEN [ok |-> FALSE]
    ELSE IF first /\ s[i] = "}"
         THEN [ok |-> TRUE, val |-> acc, next |-> i + 1]
    ELSE IF s[i] # "\"" THEN [ok |-> FALSE]
    ELSE LET k == ParseChars(s, i + 1, <<>>) IN
         IF ~k.ok THEN [ok |-> FALSE]
         ELSE LET c == SkipWs(s, k.next) IN
              IF c > Len(s) \/ s[c] # ":" THEN [ok |-> FALSE]
              ELSE LET v == ParseScalar(s, SkipWs(s, c + 1)) IN
                   IF ~v.ok THEN [ok |-> FALSE]
                   ELSE LET e == SkipWs(s, v.next)
                            acc2 == DictPut(acc, k.val, v.val)
                        IN IF e > Len(s) THEN [ok |-> FALSE]
                           ELSE IF s[e] = "}"
                                THEN [ok |-> TRUE, val |-> acc2,
                                      next |-> e + 1]
                           ELSE IF s[e] = ","
                                THEN ParseMembers(s, e + 1, FALSE, acc2)
                           ELSE [ok |-> FALSE]

\* json.loads(s): [ok, isdict, val]; the documents read here are an
\* object of scalar members, a string, a number or the empty array
JsonLoad(s) ==
    LET i == SkipWs(s, 1)
        r == IF i > Len(s) THEN [ok |-> FALSE]
             ELSE IF s[i] = "{" THEN ParseMembers(s, i + 1, TRUE, <<>>)
             ELSE IF s[i] = "[" THEN
                  LET j == SkipWs(s, i + 1) IN
                  IF j <= Len(s) /\ s[j] = "]"
                  THEN [ok |-> TRUE, val |-> <<>>, next |-> j + 1]
                  ELSE [ok |-> FALSE]
             ELSE ParseScalar(s, i)
    IN IF ~r.ok THEN [ok |-> FALSE]
       ELSE IF SkipWs(s, r.next) <= Len(s) THEN [ok |-> FALSE]
       ELSE [ok |-> TRUE, isdict |-> s[i] = "{", val |-> r.val]

\* ==================================================== the prompt store
\* config.PROMPTS: named templates, each body holding text around one
\* {text} placeholder; names and bodies hold non-ASCII characters.  Two
\* of the five entries are kept, the one PROMPT names and an ASCII-named
\* one; the others have the same shape.
PROMPT == <<"a", "E">>

CONFIG_PROMPTS ==
    << Entry(PROMPT, <<"E", "nl", "{", "t", "}", "nl", "a">>),
       Entry(<<"n">>, <<"a", "{", "t", "}">>) >>

\* the dictionary load_prompts falls back to when it has nothing: ASCII
\* names, bodies without any brace
FALLBACK_PROMPTS ==
    << Entry(<<"a">>, <<"a", " ", "a">>),
       Entry(<<"t", "a">>, <<"a", " ", "n">>) >>

\* the body _prompt_new gives a new prompt: "Write your prompt here"
\* followed by a non-ASCII ellipsis
NEW_PROMPT_BODY == <<"a", " ", "a", "E">>

\* The prompts file: absent, or present but not openable (open() raises
\* OSError whatever the mode), or a file of bytes.
AbsentFile == [kind |-> "absent", bytes |-> <<>>]
UnreadableFile == [kind |-> "unreadable", bytes |-> <<>>]
FileOf(b) == [kind |-> "file", bytes |-> b]

\* load_prompts() over the prompts file f
load_prompts_defaults_win(f) ==
    LET text == Utf8Decode(f.bytes)
        extra == IF text.ok THEN JsonLoad(text.val) ELSE [ok |-> FALSE]
    IN IF f.kind = "file" /\ extra.ok /\ extra.isdict
       THEN DictUpdate(extra.val, CONFIG_PROMPTS) ELSE CONFIG_PROMPTS

load_prompts(f) ==
    LET data0 == DictUpdate(<<>>, CONFIG_PROMPTS)
        text == Utf8Decode(f.bytes)
        extra == IF text.ok THEN JsonLoad(text.val) ELSE [ok |-> FALSE]
        data1 == IF f.kind = "absent" THEN data0
                 ELSE IF f.kind = "unreadable" THEN data0
                 ELSE IF ~extra.ok THEN data0
                 ELSE IF extra.isdict THEN DictUpdate(data0, extra.val)
                 ELSE data0
    IN IF data1 = <<>> THEN FALLBACK_PROMPTS ELSE data1

\* save_prompts(prompts) over the prompts file f: [ok, file]; ok is
\* FALSE when open() raises, and the file is then as it was
save_prompts(d, f) ==
    IF f.kind = "unreadable" THEN [ok |-> FALSE, file |-> f]
    ELSE [ok |-> TRUE, file |-> FileOf(Utf8Encode(JsonDump(d)))]

\* f"{base} {i}" of _prompt_new, base being "New Prompt"
NewPromptName(i) ==
    IF i = 1 THEN <<"N">>
    ELSE <<"N", " ", DigitChars[i]>>

\* _prompt_new without its loop: the base name whatever the store holds
FreshNameNoLoop(d, i) == NewPromptName(i)

\* the name _prompt_new's loop ends on, counting from i
RECURSIVE FreshNameFrom(_, _)
FreshNameFrom(d, i) ==
    IF HasKey(d, NewPromptName(i)) THEN FreshNameFrom(d, i + 1)
    ELSE NewPromptName(i)

\* the value _refresh_prompt_menu(select) leaves in prompt_key_var
RefreshedKey(d, key, select) ==
    LET keys == IF d = <<>> THEN << <<>> >> ELSE DictKeys(d)
        has(k) == \E i \in 1..Len(keys) : keys[i] = k
    IN IF select # <<>> /\ has(select) THEN select
       ELSE IF ~has(key) THEN keys[1]
       ELSE key


\* ======================================================== LLMClient
Providers == {"OpenAI", "Anthropic", "Gemini"}

None == <<"None">>

\* x or ""
OrEmpty(x) == IF x = None THEN <<>> ELSE x

\* "\n".join(parts)
RECURSIVE JoinLines(_)
JoinLines(parts) ==
    IF parts = <<>> THEN <<>>
    ELSE IF Len(parts) = 1 THEN parts[1]
    ELSE parts[1] \o <<"nl">> \o JoinLines(Tail(parts))

\* the text parts complete collects from the content blocks of an
\* Anthropic message: an object with a text attribute, a dict of type
\* "text", or another block, which is skipped
RECURSIVE TextParts(_)
TextParts(blocks) ==
    IF blocks = <<>> THEN <<>>
    ELSE (CASE Head(blocks).kind = "object" -> <<Head(blocks).text>>
            [] Head(blocks).kind = "dict" /\ Head(blocks).type = "text" ->
                    <<Head(blocks).text>>
            [] OTHER -> <<>>)
         \o TextParts(Tail(blocks))

\* What complete makes of the vendor's reply: [ok |-> TRUE, val |-> str]
\* or [ok |-> FALSE] when it raises.  A reply is [raised |-> TRUE] when
\* the SDK call raised, else
\*   OpenAI:    [choices |-> sequence of message contents (str or None)]
\*   Anthropic: [content |-> None or a sequence of blocks]
\*   Gemini:    [hastext |-> BOOLEAN, text |-> str or None]
Answer(provider, reply) ==
    IF reply.raised THEN [ok |-> FALSE]
    ELSE CASE provider = "OpenAI" ->
                IF reply.choices = <<>> THEN [ok |-> FALSE]
                ELSE [ok |-> TRUE, val |-> Strip(OrEmpty(reply.choices[1]))]
           [] provider = "Anthropic" ->
                [ok |-> TRUE,
                 val |-> Strip(JoinLines(TextParts(OrEmpty(reply.content))))]
           [] OTHER ->
                [ok |-> TRUE,
                 val |-> Strip(OrEmpty(IF reply.hastext THEN reply.text
                                       ELSE None))]

Raised == [raised |-> TRUE]

\* the replies a vendor may give
VendorReplies(provider) ==
    {Raised} \cup
    CASE provider = "OpenAI" ->
            { [raised |-> FALSE, choices |-> c] :
                c \in { <<>>, <<None>>, << <<" ", "a", "nl">> >> } }
      [] provider = "Anthropic" ->
            { [raised |-> FALSE, content |-> c] :
                c \in { None, <<>>,
                        << [kind |-> "object", text |-> <<"a">>],
                           [kind |-> "other"],
                           [kind |-> "dict", type |-> "text",
                            text |-> <<"n", " ">>] >> } }
      [] OTHER ->
            { [raised |-> FALSE, hastext |-> FALSE, text |-> None],
              [raised |-> FALSE, hastext |-> TRUE, text |-> None],
              [raised |-> FALSE, hastext |-> TRUE, text |-> <<"a", " ">>] }

\* ================================================= the provider list
\* config.PROVIDERS
CONFIG_PROVIDERS ==
    << <<"OpenAI", <<"gpt-4o-mini", "gpt-4o", "gpt-4.1-mini">> >>,
       <<"Anthropic", <<"claude-3-5-sonnet-20240620",
                        "claude-3-opus-20240229">> >>,
       <<"Gemini", <<"gemini-1.5-pro", "gemini-1.5-flash">> >> >>

\* the models merged_providers adds to each of its three providers
BUILTIN_MODELS ==
    << <<"OpenAI", <<"gpt-4o", "gpt-4o-mini", "o3-mini", "gpt-4.1-mini">> >>,
       <<"Anthropic", <<"claude-3.5-sonnet", "claude-3-opus",
                        "claude-3-haiku">> >>,
       <<"Gemini", <<"gemini-1.5-pro", "gemini-1.5-flash">> >> >>

\* the order of str: the strings of the provider lists, smallest first
StringOrder ==
    << "Anthropic", "Gemini", "Mistral", "OpenAI",
       "claude-3-5-sonnet-20240620", "claude-3-haiku", "claude-3-opus",
       "claude-3-opus-20240229", "claude-3.5-sonnet", "gemini-1.5-flash",
       "gemini-1.5-pro", "gpt-4.1-mini", "gpt-4o", "gpt-4o-mini",
       "mistral-large", "o3-mini" >>

Rank(x) == CHOOSE i \in 1..Len(StringOrder) : StringOrder[i] = x

Range(l) == {l[i] : i \in 1..Len(l)}

\* sorted(set(l))
SortedSet(l) == SelectSeq(StringOrder, LAMBDA x : x \in Range(l))

\* a dict from provider name to model list, as the sequence of its items
MapHas(m, k) == \E i \in 1..Len(m) : m[i][1] = k

MapGet(m, k) == m[CHOOSE i \in 1..Len(m) : m[i][1] = k][2]

\* m[k] = v
MapSet(m, k, v) ==
    IF MapHas(m, k)
    THEN [i \in 1..Len(m) |-> IF m[i][1] = k THEN <<k, v>> ELSE m[i]]
    ELSE Append(m, <<k, v>>)

\* {name: list(models) for (name, models) in pairs}
RECURSIVE FromPairs(_, _)
FromPairs(pairs, acc) ==
    IF pairs = <<>> THEN acc
    ELSE FromPairs(Tail(pairs), MapSet(acc, Head(pairs)[1], Head(pairs)[2]))

\* m.setdefault(name, []).extend(extra), for each item of extras in turn
RECURSIVE ExtendAll(_, _)
ExtendAll(m, extras) ==
    IF extras = <<>> THEN m
    ELSE LET k == Head(extras)[1]
             old == IF MapHas(m, k) THEN MapGet(m, k) ELSE <<>>
         IN ExtendAll(MapSet(m, k, old \o Head(extras)[2]), Tail(extras))

\* [(k, m[k]) for k in sorted(m.keys())], each m[k] being sorted(set(m[k]))
SortedItems(m) ==
    LET keys == SortedSet([i \in 1..Len(m) |-> m[i][1]])
    IN [i \in 1..Len(keys) |-> <<keys[i], SortedSet(MapGet(m, keys[i]))>>]

\* merged_providers keeping the configured model lists themselves in its
\* dict instead of copies: the list of the last item of each built-in
\* name is extended in place
merged_providers_aliasing(config) ==
    [result |-> SortedItems(ExtendAll(FromPairs(config, <<>>),
                                      BUILTIN_MODELS)),
     config |->
        [i \in 1..Len(config) |->
            IF /\ MapHas(BUILTIN_MODELS, config[i][1])
               /\ \A j \in (i + 1)..Len(config) : config[j][1] # config[i][1]
            THEN <<config[i][1],
                   config[i][2] \o MapGet(BUILTIN_MODELS, config[i][1])>>
            ELSE config[i]]]

\* merged_providers() with CONFIG_PROVIDERS as given: what it returns,
\* and CONFIG_PROVIDERS after the call
merged_providers(config) ==
    [result |-> SortedItems(ExtendAll(FromPairs(config, <<>>),
                                      BUILTIN_MODELS)),
     config |-> config]

\* ============================================================== state
VARIABLES
    prompts,          \* self.prompts: the in-memory prompt store
    prompt_key_var,   \* self.prompt_key_var: the selected prompt name
    promptsFile,      \* the file PROMPTS_FILE on disk
    status_var,       \* self.status_var: the status line
    fileGhost,        \* history: what the prompts file was last made of
    lastOp,           \* history: the last prompt-editor operation
    nOps,             \* history: number of prompt-editor events so far
    llm,              \* one LLMClient.complete call and its vendor request
    ui,               \* the Tk variables of the settings (outputs, keys)
    env,              \* what the machine offers: the vendor SDK, the clock
    q_ui,             \* self.q_ui: messages from the workers to the UI
    txt_ocr,          \* the OCR text box: its text, and the capture it is of
    txt_ai,           \* the answer text box
    preview,          \* the preview label: the capture it shows, 0 if none
    txt_log,          \* the log text box, newest line first
    clipboard,        \* the system clipboard
    logFiles,         \* the files of self.log_dir, by timestamp name
    http,             \* history: the HTTP requests issued
    runs,             \* the worker threads, one per triggered action
    config_providers, \* config.PROVIDERS, the configured provider list
    providers,        \* self.providers: what merged_providers returned
    catalogGhost      \* history: the list as configured, the first result

promptVars ==
    <<prompts, prompt_key_var, promptsFile, status_var, fileGhost, lastOp,
      nOps>>

pipeVars ==
    <<ui, env, q_ui, txt_ocr, txt_ai, preview, txt_log, clipboard, logFiles,
      http, runs>>

storeVars == <<prompts, prompt_key_var, promptsFile, fileGhost, lastOp, nOps>>

catalogVars == <<config_providers, providers, catalogGhost>>

nonPromptVars == <<llm, pipeVars, catalogVars>>

vars == <<promptVars, nonPromptVars>>

\* ------------------------------------------------- the prompt editor
\* what the user may type in the name field and in the prompt text box
EditorNames == { <<>>, <<" ">>, <<"N">>, <<" ", "n", " ">> }
EditorBodies ==
    { <<"a", "{", "t", "}", "nl">>, <<"\\", "n", "\"">>, NEW_PROMPT_BODY }

\* the mappings a prompts file may hold when the program starts
InitialMappings ==
    { <<>>,
      << Entry(<<"N">>, <<"a", "E">>) >>,
      << Entry(PROMPT, <<"a">>), Entry(<<"t">>, <<"\\", "\"", "nl">>) >> }

\* the prompts file when the program starts, with what it is made of
InitialFiles ==
    { [file |-> AbsentFile, class |-> "absent", obj |-> <<>>],
      [file |-> UnreadableFile, class |-> "unreadable", obj |-> <<>>],
      [file |-> FileOf(<<"{", "\"", "a", "\"">>), class |-> "invalid",
       obj |-> <<>>],
      [file |-> FileOf(<<"{", "\"", "a", "\"", ":", "\"", "xC3", "\"", "}">>),
       class |-> "invalid", obj |-> <<>>],
      [file |-> FileOf(<<"[", "]">>), class |-> "nonobject", obj |-> <<>>],
      [file |-> FileOf(<<"\"", "N", "\"", "nl">>), class |-> "nonobject",
       obj |-> <<>>] }
    \cup { [file |-> FileOf(Utf8Encode(JsonDump(m))), class |-> "object",
            obj |-> m] : m \in InitialMappings }


\* ===================================================== HTTP responses
\* what requests.post may end in: an exception, or a response
\* r.text[:200]: the characters of the response body kept in a detail
BODY_LIMIT == 200

ShortBody == <<"a">>

\* a response body one character longer than what a detail keeps
LongBody == [i \in 1..(BODY_LIMIT + 1) |-> DigitChars[(i % 9) + 1]]

HttpOutcomes ==
    { [exc |-> TRUE, status |-> 0, text |-> <<>>] }
    \cup { [exc |-> FALSE, status |-> c, text |-> b] :
             c \in {204, 299, 300, 429}, b \in {ShortBody, LongBody} }

\* the outcomes of the runs that do not follow the details: an exception
\* of the call, or an empty success
PlainOutcomes ==
    {o \in HttpOutcomes : o.exc \/ (o.status = 204 /\ o.text = ShortBody)}

\* no request was made
NoResponse == [exc |-> FALSE, status |-> 0, text |-> <<>>]

\* ================================================== the pipeline state
Runs == 1..MaxRuns

\* the settings after __init__ with no webhook and no Telegram
\* credentials in the environment, and an OpenAI key
DefaultSettings ==
    [do_copy_clipboard |-> TRUE, do_auto_save |-> TRUE,
     do_send_discord |-> FALSE, do_send_telegram |-> FALSE,
     var_webhook |-> <<>>, telegram_token |-> <<>>, telegram_chat |-> <<>>,
     provider_var |-> "OpenAI", api_key |-> <<"a">>,
     var_w |-> 1200, var_h |-> 700]

\* grab_image was not called
NoGrab == [called |-> FALSE, width |-> 0, height |-> 0]

IdleRun == [kind |-> "none", pc |-> "idle", provider |-> "OpenAI",
            text |-> None, txt |-> None, src |-> 0, ans |-> None,
            discord_resp |-> NoResponse, telegram_resp |-> NoResponse,
            grab |-> NoGrab,
            events |-> <<>>]

\* everything but the settings, the environment and the prompt store,
\* after __init__
InitWidgets ==
    /\ q_ui = <<>>
    /\ txt_ocr = [of |-> 0, text |-> <<>>]
    /\ txt_ai = [of |-> 0, text |-> <<>>]
    /\ preview = 0
    /\ txt_log = <<>>
    /\ clipboard = None
    /\ logFiles = <<>>
    /\ http = {}
    /\ runs = [r \in Runs |-> IdleRun]

\* the state of the pipeline while only the prompt editor or only
\* LLMClient.complete is followed
InitPipeIdle ==
    /\ ui = DefaultSettings
    /\ env = [sdk_ok |-> TRUE, now |-> 0, responses |-> PlainOutcomes]
    /\ InitWidgets

\* self.providers = merged_providers(), in __init__
InitCatalogOf(config) ==
    LET m == merged_providers(config)
    IN /\ config_providers = m.config
       /\ providers = m.result
       /\ catalogGhost = [config0 |-> config, first |-> m.result, calls |-> 1]

InitCatalog == InitCatalogOf(CONFIG_PROVIDERS)

\* no LLMClient.complete call is being followed
NoCall == [pc |-> "idle", provider |-> "OpenAI", template |-> <<>>,
           text |-> <<>>, request |-> None, reply |-> None,
           result |-> None]

NoOp == [op |-> "none", key |-> <<>>, before |-> <<>>, prevOp |-> "none",
         prevKey |-> <<>>]

Did(op, key) ==
    [op |-> op, key |-> key, before |-> prompts, prevOp |-> lastOp.op,
     prevKey |-> lastOp.key]

\* __init__: self.prompts = load_prompts(); the default prompt is PROMPT
\* when the store has it, else the first key
InitPrompts ==
    /\ \E f \in InitialFiles :
        /\ promptsFile = f.file
        /\ fileGhost = [class |-> f.class, obj |-> f.obj]
        /\ prompts = load_prompts(f.file)
    /\ prompt_key_var = IF HasKey(prompts, PROMPT) THEN PROMPT
                        ELSE DictKeys(prompts)[1]
    /\ status_var = "Ready."
    /\ lastOp = NoOp
    /\ nOps = 0
    /\ llm = NoCall
    /\ InitPipeIdle
    /\ InitCatalog

\* the user picks a prompt in the option menu
SelectPrompt ==
    /\ nOps < MaxPromptOps
    /\ \E i \in 1..Len(prompts) :
        /\ prompts[i].name # prompt_key_var
        /\ prompt_key_var' = prompts[i].name
    /\ nOps' = nOps + 1
    /\ UNCHANGED nonPromptVars
    /\ lastOp' = Did("select", prompt_key_var')
    /\ UNCHANGED <<prompts, promptsFile, status_var, fileGhost>>

\* _prompt_new
_prompt_new ==
    /\ nOps < MaxPromptOps
    /\ LET name == FreshNameFrom(prompts, 1)
           d == DictPut(prompts, name, NEW_PROMPT_BODY)
       IN /\ prompts' = d
          /\ prompt_key_var' = RefreshedKey(d, prompt_key_var, name)
          /\ lastOp' = Did("new", name)
    /\ nOps' = nOps + 1
    /\ UNCHANGED nonPromptVars
    /\ UNCHANGED <<promptsFile, status_var, fileGhost>>

\* _prompt_save, the name field holding rawName and the text box rawText
_prompt_save ==
    /\ nOps < MaxPromptOps
    /\ \E rawName \in EditorNames, rawText \in EditorBodies :
        LET name == Strip(rawName)
            text == Strip(rawText)
            d == DictPut(prompts, name, text)
            w == save_prompts(d, promptsFile)
        IN IF name = <<>>
           THEN /\ status_var' = "Prompt name is empty."
                /\ lastOp' = Did("save_rejected", name)
                /\ UNCHANGED <<prompts, prompt_key_var, promptsFile,
                               fileGhost>>
           ELSE /\ prompts' = d
                /\ promptsFile' = w.file
                /\ lastOp' = Did(IF w.ok THEN "save" ELSE "save_raised", name)
                /\ IF w.ok
                   THEN /\ fileGhost' = [class |-> "object", obj |-> d]
                        /\ prompt_key_var' =
                               RefreshedKey(d, prompt_key_var, name)
                        /\ status_var' = "Prompt saved."
                   ELSE UNCHANGED <<fileGhost, prompt_key_var, status_var>>
    /\ nOps' = nOps + 1
    /\ UNCHANGED nonPromptVars

\* _prompt_delete
_prompt_delete ==
    /\ nOps < MaxPromptOps
    /\ LET name == prompt_key_var
           d == DictDel(prompts, name)
           w == save_prompts(d, promptsFile)
           new_key == IF d = <<>> THEN <<>> ELSE d[1].name
       IN IF ~HasKey(prompts, name)
          THEN /\ lastOp' = Did("delete_absent", name)
               /\ UNCHANGED <<prompts, prompt_key_var, promptsFile,
                              status_var, fileGhost>>
          ELSE /\ prompts' = d
               /\ promptsFile' = w.file
               /\ lastOp' = Did(IF w.ok THEN "delete" ELSE "delete_raised",
                                name)
               /\ IF w.ok
                  THEN /\ fileGhost' = [class |-> "object", obj |-> d]
                       /\ prompt_key_var' =
                              RefreshedKey(d, prompt_key_var, new_key)
                       /\ status_var' = "Prompt deleted."
                  ELSE UNCHANGED <<fileGhost, prompt_key_var, status_var>>
    /\ nOps' = nOps + 1
    /\ UNCHANGED nonPromptVars

\* the program is closed and started again: __init__ loads the store
Restart ==
    /\ nOps < MaxPromptOps
    /\ lastOp.op # "restart"
    /\ prompts' = load_prompts(promptsFile)
    /\ prompt_key_var' = IF HasKey(prompts', PROMPT) THEN PROMPT
                         ELSE DictKeys(prompts')[1]
    /\ status_var' = "Ready."
    /\ lastOp' = Did("restart", <<>>)
    /\ nOps' = nOps + 1
    /\ UNCHANGED nonPromptVars
    /\ UNCHANGED <<promptsFile, fileGhost>>

NextPrompts ==
    \/ SelectPrompt
    \/ _prompt_new
    \/ _prompt_save
    \/ _prompt_delete
    \/ Restart

SpecPrompts == InitPrompts /\ [][NextPrompts]_vars

\* ------------------------------------------------ LLMClient.complete
\* the templates complete is called with: the bodies the program creates
\* itself, and bodies a user may save
Templates ==
    {CONFIG_PROMPTS[i].body : i \in 1..Len(CONFIG_PROMPTS)}
    \cup {FALLBACK_PROMPTS[i].body : i \in 1..Len(FALLBACK_PROMPTS)}
    \cup { NEW_PROMPT_BODY, <<>>, <<"{">>, <<"a", "}">>, <<"{", "}">>,
           <<"{", "a", "}">>, <<"{", "{", "t", "}", "}">>, <<"{", "t">>,
           <<"{", "t", "}", "{", "t", "}">> }

\* the input texts complete is called with
InputTexts == { <<"2">>, <<"a", "{", "nl", "E">> }

InitLLM ==
    \E p \in Providers, tpl \in Templates, txt \in InputTexts :
        llm = [pc |-> "start", provider |-> p, template |-> tpl,
               text |-> txt, request |-> None, reply |-> None,
               result |-> None]

\* complete up to the vendor call: the prompt is rendered, and the
\* request is sent unless format raised
complete_call ==
    /\ llm.pc = "start"
    /\ LET r == Format(llm.template, llm.text)
       IN llm' = IF r.ok
                 THEN [llm EXCEPT !.pc = "called", !.request = r.val]
                 ELSE [llm EXCEPT !.pc = "raised"]
    /\ UNCHANGED <<promptVars, pipeVars, catalogVars>>

\* complete from the vendor's reply to its return
complete_return ==
    /\ llm.pc = "called"
    /\ \E reply \in VendorReplies(llm.provider) :
        LET a == Answer(llm.provider, reply)
        IN llm' = IF a.ok
                  THEN [llm EXCEPT !.pc = "returned", !.reply = reply,
                                   !.result = a.val]
                  ELSE [llm EXCEPT !.pc = "raised", !.reply = reply]
    /\ UNCHANGED <<promptVars, pipeVars, catalogVars>>

NextLLM == complete_call \/ complete_return

InitLLMOnly ==
    /\ InitLLM
    /\ promptsFile = AbsentFile
    /\ fileGhost = [class |-> "absent", obj |-> <<>>]
    /\ prompts = load_prompts(AbsentFile)
    /\ prompt_key_var = PROMPT
    /\ status_var = "Ready."
    /\ lastOp = NoOp
    /\ nOps = 0
    /\ InitPipeIdle
    /\ InitCatalog

SpecLLM == InitLLMOnly /\ [][NextLLM]_vars

\* ============================================================ workers
Msg(kind, payload) == [kind |-> kind, payload |-> payload]

\* the text the OCR engine extracts in run r: digits of the run, with
\* the trailing newline of the engine
OcrText(r) == <<DigitChars[r], "a", "nl">>

\* an OCR result of whitespace only
BlankOcrText == <<" ", "nl">>

\* the question _test_ai_call asks when the OCR box is empty
TEST_QUESTION == <<"a", " ", "2">>

\* the text the Telegram test button sends
TEST_MESSAGE == <<"t", "E">>

\* an HTTP request: the run that issued it (0 for the UI thread), the
\* service, and what it carries
Request(by, to, url, chat, body) ==
    [by |-> by, to |-> to, url |-> url, chat |-> chat, body |-> body]

\* the next idle worker: runs are numbered in the order they are triggered
NextIdle(r) ==
    /\ runs[r].kind = "none"
    /\ \A q \in Runs : q < r => runs[q].kind # "none"

At(r, pc) == runs[r].kind # "none" /\ runs[r].pc = pc

Event(r, e) == Append(runs[r].events, e)

\* capture_once: the status line is set and _capture_thread is started
capture_once(r) ==
    /\ NextIdle(r)
    /\ status_var' = "Capturing"
    /\ runs' = [runs EXCEPT ![r] = [IdleRun EXCEPT !.kind = "capture",
                                                  !.pc = "capture"]]
    /\ UNCHANGED <<ui, env, q_ui, txt_ocr, txt_ai, preview, txt_log,
                   clipboard, logFiles, http>>
    /\ UNCHANGED <<storeVars, llm, catalogVars>>

\* solve_flow starting the capture on a thread of its own, as capture_once
\* does, and not waiting for it to return
solve_flow_detached(r) ==
    /\ NextIdle(r)
    /\ runs' = [runs EXCEPT ![r] = [IdleRun EXCEPT !.kind = "solve",
                                                  !.pc = "read"]]
    /\ UNCHANGED <<status_var, ui, env, q_ui, txt_ocr, txt_ai, preview,
                   txt_log, clipboard, logFiles, http>>
    /\ UNCHANGED <<storeVars, llm, catalogVars>>

\* solve_flow: its worker is started, and begins with _capture_thread
solve_flow(r) ==
    /\ NextIdle(r)
    /\ runs' = [runs EXCEPT ![r] = [IdleRun EXCEPT !.kind = "solve",
                                                  !.pc = "capture"]]
    /\ UNCHANGED <<status_var, ui, env, q_ui, txt_ocr, txt_ai, preview,
                   txt_log, clipboard, logFiles, http>>
    /\ UNCHANGED <<storeVars, llm, catalogVars>>

\* _test_ai_call: its worker is started
_test_ai_call(r) ==
    /\ NextIdle(r)
    /\ runs' = [runs EXCEPT ![r] = [IdleRun EXCEPT !.kind = "test",
                                                  !.pc = "test_read"]]
    /\ UNCHANGED <<status_var, ui, env, q_ui, txt_ocr, txt_ai, preview,
                   txt_log, clipboard, logFiles, http>>
    /\ UNCHANGED <<storeVars, llm, catalogVars>>

\* where a worker goes when _capture_thread returns
AfterCapture(kind) == IF kind = "solve" THEN "read" ELSE "done"

\* grab_image(**self.capture_zone), the zone being read from the region
\* fields
GrabCall == [called |-> TRUE, width |-> ui.var_w, height |-> ui.var_h]

\* _capture_thread up to its first put: grab_image is called with the
\* region of the fields; it and ocr_image succeed with some text, or one
\* of them raises and the error is queued
_capture_thread(r) ==
    /\ At(r, "capture")
    /\ \/ /\ q_ui' = Append(q_ui, Msg("error", "OCR/Capture error"))
          /\ runs' = [runs EXCEPT ![r].pc = AfterCapture(runs[r].kind),
                                  ![r].grab = GrabCall,
                                  ![r].events = Event(r, "capture_failed")]
       \/ \E t \in {OcrText(r), BlankOcrText} :
          /\ q_ui' = Append(q_ui, Msg("preview", r))
          /\ runs' = [runs EXCEPT ![r].pc = "put_ocr", ![r].text = t,
                                  ![r].grab = GrabCall,
                                  ![r].events = Event(r, "capture_ok")]
    /\ UNCHANGED <<status_var, ui, env, txt_ocr, txt_ai, preview, txt_log,
                   clipboard, logFiles, http>>
    /\ UNCHANGED <<storeVars, llm, catalogVars>>

\* _capture_thread: the OCR text and the status are queued
_capture_thread_put(r) ==
    /\ At(r, "put_ocr")
    /\ q_ui' = q_ui \o << Msg("ocr_text", [of |-> r, text |-> runs[r].text]),
                          Msg("status", "Capture OK") >>
    /\ runs' = [runs EXCEPT ![r].pc = AfterCapture(runs[r].kind)]
    /\ UNCHANGED <<status_var, ui, env, txt_ocr, txt_ai, preview, txt_log,
                   clipboard, logFiles, http>>
    /\ UNCHANGED <<storeVars, llm, catalogVars>>

\* the wait loop of solve_flow without its deadline
WaitOverOnTextOnly == txt_ocr.text # <<>>

\* two seconds have passed since the wait loop began: time passes
\* whatever the threads do
DeadlinePassed == TRUE

\* the wait loop of solve_flow ends: the OCR box is not empty, or the
\* deadline has passed
WaitOver == txt_ocr.text # <<>> \/ DeadlinePassed

\* solve_flow: the wait loop ends and the box is read; without text the
\* run ends
solve_read(r) ==
    /\ At(r, "read")
    /\ WaitOver
    /\ LET txt == Strip(txt_ocr.text)
       IN IF txt = <<>>
          THEN /\ q_ui' = Append(q_ui, Msg("status", "No OCR text."))
               /\ runs' = [runs EXCEPT ![r].pc = "done"]
          ELSE /\ runs' = [runs EXCEPT ![r].pc = "build", ![r].txt = txt,
                                       ![r].src = txt_ocr.of]
               /\ UNCHANGED q_ui
    /\ UNCHANGED <<status_var, ui, env, txt_ocr, txt_ai, preview, txt_log,
                   clipboard, logFiles, http>>
    /\ UNCHANGED <<storeVars, llm, catalogVars>>

\* _test_ai_call: the OCR box is read, the test question standing in for
\* an empty one
test_read(r) ==
    /\ At(r, "test_read")
    /\ LET txt == Strip(txt_ocr.text)
       IN runs' = [runs EXCEPT ![r].pc = "build",
                               ![r].src = txt_ocr.of,
                               ![r].txt = IF txt = <<>> THEN TEST_QUESTION
                                          ELSE txt]
    /\ UNCHANGED <<status_var, ui, env, q_ui, txt_ocr, txt_ai, preview,
                   txt_log, clipboard, logFiles, http>>
    /\ UNCHANGED <<storeVars, llm, catalogVars>>

\* _build_llm, and the status the caller queues when it has a client
_build_llm(r) ==
    /\ At(r, "build")
    /\ IF Strip(ui.api_key) = <<>>
       THEN /\ q_ui' = Append(q_ui, Msg("status", "Missing API key"))
            /\ runs' = [runs EXCEPT ![r].pc = "done"]
       ELSE IF ~env.sdk_ok
       THEN /\ q_ui' = Append(q_ui, Msg("error", "LLM init failed"))
            /\ runs' = [runs EXCEPT ![r].pc = "done"]
       ELSE /\ q_ui' = Append(q_ui, Msg("status",
                                        IF runs[r].kind = "solve"
                                        THEN "Solving via AI"
                                        ELSE "Calling AI"))
            /\ runs' = [runs EXCEPT ![r].pc = "complete",
                                    ![r].provider = ui.provider_var]
    /\ UNCHANGED <<status_var, ui, env, txt_ocr, txt_ai, preview, txt_log,
                   clipboard, logFiles, http>>
    /\ UNCHANGED <<storeVars, llm, catalogVars>>

\* llm.complete up to the vendor call, with the selected prompt
llm_complete(r) ==
    /\ At(r, "complete")
    /\ LET prompt == DictGet(prompts, prompt_key_var, <<>>)
           f == Format(prompt, runs[r].txt)
       IN IF f.ok
          THEN /\ runs' = [runs EXCEPT ![r].pc = "vendor",
                                       ![r].events = Event(r, "llm_call")]
               /\ http' = http \cup {Request(r, "vendor", <<>>, <<>>, f.val)}
               /\ UNCHANGED q_ui
          ELSE /\ q_ui' = Append(q_ui, Msg("error", "AI error"))
               /\ runs' = [runs EXCEPT ![r].pc = "done",
                                       ![r].events = Event(r, "llm_raised")]
               /\ UNCHANGED http
    /\ UNCHANGED <<status_var, ui, env, txt_ocr, txt_ai, preview, txt_log,
                   clipboard, logFiles>>
    /\ UNCHANGED <<storeVars, llm, catalogVars>>

\* llm.complete from the vendor's reply
llm_reply(r) ==
    /\ At(r, "vendor")
    /\ \E reply \in VendorReplies(runs[r].provider) :
        LET a == Answer(runs[r].provider, reply)
        IN IF a.ok
           THEN /\ runs' = [runs EXCEPT ![r].pc = "post", ![r].ans = a.val,
                                        ![r].events = Event(r, "llm_ret")]
                /\ UNCHANGED q_ui
           ELSE /\ q_ui' = Append(q_ui, Msg("error", "AI error"))
                /\ runs' = [runs EXCEPT ![r].pc = "done",
                                        ![r].events = Event(r, "llm_raised")]
    /\ UNCHANGED <<status_var, ui, env, txt_ocr, txt_ai, preview, txt_log,
                   clipboard, logFiles, http>>
    /\ UNCHANGED <<storeVars, llm, catalogVars>>


\* ------------------------------------------------------- _post_answer
\* r.status_code >= 300 taken as > 300
HttpFailedAbove300(o) == o.exc \/ o.status > 300

\* r.status_code >= 300 raises, as an exception of the call does
HttpFailed(o) == o.exc \/ o.status >= 300

NoDetail == [status |-> 0, text |-> <<>>]

\* the detail of the RuntimeError raised on a response: the status and
\* r.text[:200]; an exception of the call carries neither
HttpDetail(o) ==
    IF o.exc THEN NoDetail
    ELSE [status |-> o.status,
          text |-> SubSeq(o.text, 1, IF Len(o.text) < BODY_LIMIT
                                     THEN Len(o.text) ELSE BODY_LIMIT)]

LogLine(r, text) == [by |-> r, text |-> text, detail |-> NoDetail]

\* a line that ends with the text of the exception caught
FailLine(r, text, detail) == [by |-> r, text |-> text, detail |-> detail]

\* self.txt_log.insert("1.0", line)
LogInsert(line) == <<line>> \o txt_log

\* _send_telegram_message without its check of the credentials
_send_telegram_message_unchecked(token, chat, o) ==
    [posted |-> TRUE, raised |-> HttpFailed(o), detail |-> HttpDetail(o)]

\* _send_telegram_message(text) with the token and chat id fields as
\* given, requests.post ending in o: whether the request was posted,
\* whether the method raised, and the detail of what it raised
_send_telegram_message(token, chat, o) ==
    IF Strip(token) = <<>> \/ Strip(chat) = <<>>
    THEN [posted |-> FALSE, raised |-> TRUE, detail |-> NoDetail]
    ELSE [posted |-> TRUE, raised |-> HttpFailed(o), detail |-> HttpDetail(o)]

\* the request _send_telegram_message posts: the token is part of the
\* URL, the chat id and the text are in the body
TelegramRequest(by, text) ==
    Request(by, "telegram", Strip(ui.telegram_token),
            Strip(ui.telegram_chat), text)

\* _post_answer: the answer and the status are queued, then the
\* clipboard is set; clipboard_clear may raise, which is swallowed
post_answer(r) ==
    /\ At(r, "post")
    /\ q_ui' = q_ui \o << Msg("ai_text", [of |-> r, text |-> runs[r].ans]),
                          Msg("status", "AI answer received.") >>
    /\ IF ui.do_copy_clipboard
       THEN \/ /\ clipboard' = runs[r].ans
               /\ runs' = [runs EXCEPT ![r].pc = "disk",
                               ![r].events = Event(r, "clipboard_ok")]
            \/ /\ clipboard' = clipboard
               /\ runs' = [runs EXCEPT ![r].pc = "disk",
                               ![r].events = Event(r, "clipboard_failed")]
       ELSE /\ runs' = [runs EXCEPT ![r].pc = "disk"]
            /\ UNCHANGED clipboard
    /\ UNCHANGED <<status_var, ui, env, txt_ocr, txt_ai, preview, txt_log,
                   logFiles, http>>
    /\ UNCHANGED <<storeVars, llm, catalogVars>>

\* _post_answer: _append_log, which is not guarded: when it raises,
\* _post_answer raises, and the caller queues its "AI error"
post_disk(r) ==
    /\ At(r, "disk")
    /\ IF ui.do_auto_save
       THEN \/ /\ logFiles' = (env.now :> [by |-> r, ocr |-> runs[r].txt,
                                           answer |-> runs[r].ans])
                              @@ logFiles
               /\ txt_log' = LogInsert(LogLine(r, "Log written"))
               /\ runs' = [runs EXCEPT ![r].pc = "discord",
                               ![r].events = Event(r, "disk_ok")]
               /\ UNCHANGED q_ui
            \/ /\ q_ui' = Append(q_ui, Msg("error", "AI error"))
               /\ runs' = [runs EXCEPT ![r].pc = "done",
                               ![r].events = Event(r, "disk_raised")]
               /\ UNCHANGED <<logFiles, txt_log>>
       ELSE /\ runs' = [runs EXCEPT ![r].pc = "discord"]
            /\ UNCHANGED <<logFiles, txt_log, q_ui>>
    /\ UNCHANGED <<status_var, ui, env, txt_ocr, txt_ai, preview,
                   clipboard, http>>
    /\ UNCHANGED <<storeVars, llm, catalogVars>>

\* _post_answer: the Discord webhook
post_discord(r) ==
    /\ At(r, "discord")
    /\ IF ui.do_send_discord /\ Strip(ui.var_webhook) # <<>>
       THEN \E o \in env.responses :
            /\ http' = http \cup {Request(r, "discord",
                                            Strip(ui.var_webhook), <<>>,
                                            runs[r].ans)}
            /\ txt_log' = LogInsert(
                   IF HttpFailed(o)
                   THEN FailLine(r, "Discord failed", HttpDetail(o))
                   ELSE LogLine(r, "Sent to Discord."))
            /\ runs' = [runs EXCEPT ![r].pc = "telegram",
                            ![r].discord_resp = o,
                            ![r].events = Event(r, IF HttpFailed(o)
                                                   THEN "discord_failed"
                                                   ELSE "discord_ok")]
       ELSE /\ runs' = [runs EXCEPT ![r].pc = "telegram"]
            /\ UNCHANGED <<http, txt_log>>
    /\ UNCHANGED <<status_var, ui, env, q_ui, txt_ocr, txt_ai, preview,
                   clipboard, logFiles>>
    /\ UNCHANGED <<storeVars, llm, catalogVars>>

\* _post_answer: the Telegram bot, after which _post_answer returns
post_telegram(r) ==
    /\ At(r, "telegram")
    /\ IF /\ ui.do_send_telegram
          /\ Strip(ui.telegram_token) # <<>>
          /\ Strip(ui.telegram_chat) # <<>>
       THEN \E o \in env.responses :
            LET t == _send_telegram_message(ui.telegram_token,
                                            ui.telegram_chat, o)
            IN /\ http' = IF t.posted
                          THEN http \cup {TelegramRequest(r, runs[r].ans)}
                          ELSE http
               /\ txt_log' = IF t.raised
                             THEN LogInsert(FailLine(r, "Telegram failed",
                                                     t.detail))
                             ELSE txt_log
               /\ runs' = [runs EXCEPT ![r].pc = "done",
                               ![r].telegram_resp = o,
                               ![r].events =
                                   Event(r, IF t.raised THEN "telegram_failed"
                                            ELSE "telegram_ok")
                                   \o <<"post_done">>]
       ELSE /\ runs' = [runs EXCEPT ![r].pc = "done",
                            ![r].events = Event(r, "post_done")]
            /\ UNCHANGED <<http, txt_log>>
    /\ UNCHANGED <<status_var, ui, env, q_ui, txt_ocr, txt_ai, preview,
                   clipboard, logFiles>>
    /\ UNCHANGED <<storeVars, llm, catalogVars>>

\* ------------------------------------------------------ the UI thread
\* _test_telegram, on the UI thread
_test_telegram ==
    /\ \E o \in env.responses :
        LET t == _send_telegram_message(ui.telegram_token,
                                        ui.telegram_chat, o)
        IN /\ http' = IF t.posted THEN http \cup {TelegramRequest(0, TEST_MESSAGE)}
                      ELSE http
           /\ status_var' = IF t.raised THEN "Telegram failed"
                            ELSE "Telegram OK."
    /\ UNCHANGED <<ui, env, q_ui, txt_ocr, txt_ai, preview, txt_log,
                   clipboard, logFiles, runs>>
    /\ UNCHANGED <<storeVars, llm, catalogVars>>

\* what a widget shows once every queued message of the kinds given has
\* been applied in order: the payload of the last of them
LastOf(q, kinds, shown) ==
    LET at == {i \in 1..Len(q) : q[i].kind \in kinds}
    IN IF at = {} THEN shown
       ELSE q[CHOOSE i \in at : \A j \in at : j <= i].payload

\* _drain_ui_queue: every queued message is taken and shown, in order
_drain_ui_queue ==
    /\ q_ui # <<>>
    /\ q_ui' = <<>>
    /\ preview' = LastOf(q_ui, {"preview"}, preview)
    /\ txt_ocr' = LastOf(q_ui, {"ocr_text"}, txt_ocr)
    /\ txt_ai' = LastOf(q_ui, {"ai_text"}, txt_ai)
    /\ status_var' = LastOf(q_ui, {"status", "error"}, status_var)
    /\ UNCHANGED <<ui, env, txt_log, clipboard, logFiles, http, runs>>
    /\ UNCHANGED <<storeVars, llm, catalogVars>>

\* ====================================================== the pipeline
\* the store of the pipeline runs: the defaults, a prompt as _prompt_new
\* makes it, and a prompt saved with an unclosed brace
PipelinePrompts ==
    DictPut(DictPut(load_prompts(AbsentFile), NewPromptName(1),
                    NEW_PROMPT_BODY),
            <<"t">>, <<"a", "{", "t">>)

WEBHOOK_URL == <<"a", ":", "n">>
BOT_TOKEN == <<"1", ":", "a">>
CHAT_ID == <<"2">>

\* the settings, the environment and the selected prompt of the runs
\* followed: the defaults, clipboard and disk; the two network sinks,
\* configured; the two network sinks, not configured; no API key; no
\* vendor SDK; a prompt without placeholder, no sink; a prompt with an
\* unclosed brace
Profiles ==
    { [ui |-> DefaultSettings, sdk_ok |-> TRUE, key |-> PROMPT],
      [ui |-> [DefaultSettings EXCEPT !.do_copy_clipboard = FALSE,
                                      !.do_auto_save = FALSE,
                                      !.do_send_discord = TRUE,
                                      !.do_send_telegram = TRUE,
                                      !.var_webhook = WEBHOOK_URL,
                                      !.telegram_token = BOT_TOKEN,
                                      !.telegram_chat = CHAT_ID,
                                      !.provider_var = "Anthropic"],
       sdk_ok |-> TRUE, key |-> PROMPT],
      [ui |-> [DefaultSettings EXCEPT !.do_copy_clipboard = FALSE,
                                      !.do_auto_save = FALSE,
                                      !.do_send_discord = TRUE,
                                      !.do_send_telegram = TRUE,
                                      !.var_webhook = <<" ">>,
                                      !.telegram_token = <<" ">>,
                                      !.telegram_chat = CHAT_ID,
                                      !.provider_var = "Gemini"],
       sdk_ok |-> TRUE, key |-> PROMPT],
      [ui |-> [DefaultSettings EXCEPT !.api_key = <<" ">>],
       sdk_ok |-> TRUE, key |-> PROMPT],
      [ui |-> DefaultSettings, sdk_ok |-> FALSE, key |-> PROMPT],
      [ui |-> [DefaultSettings EXCEPT !.do_copy_clipboard = FALSE,
                                      !.do_auto_save = FALSE],
       sdk_ok |-> TRUE, key |-> NewPromptName(1)],
      [ui |-> DefaultSettings, sdk_ok |-> TRUE, key |-> <<"t">>] }

InitStore(key) ==
    /\ promptsFile = AbsentFile
    /\ fileGhost = [class |-> "absent", obj |-> <<>>]
    /\ prompts = PipelinePrompts
    /\ prompt_key_var = key
    /\ status_var = "Ready."
    /\ lastOp = NoOp
    /\ nOps = 0
    /\ llm = NoCall
    /\ InitCatalog

Init ==
    /\ \E p \in Profiles :
        /\ ui = p.ui
        /\ env = [sdk_ok |-> p.sdk_ok, now |-> 0, responses |-> PlainOutcomes]
        /\ InitStore(p.key)
    /\ InitWidgets

\* the steps of a worker thread
Worker(r) ==
    \/ _capture_thread(r)
    \/ _capture_thread_put(r)
    \/ solve_read(r)
    \/ _build_llm(r)
    \/ llm_complete(r)
    \/ llm_reply(r)
    \/ post_answer(r)
    \/ post_disk(r)
    \/ post_discord(r)
    \/ post_telegram(r)

Next ==
    \/ \E r \in Runs : capture_once(r) \/ solve_flow(r)
    \/ \E r \in Runs : Worker(r)
    \/ _drain_ui_queue

Spec == Init /\ [][Next]_vars

\* ------------------------------------------------- the answer fan-out
\* every setting of the four sinks: each switch on or off, the webhook
\* empty, blank or set, the token empty, blank or set, the chat id empty
\* or set
DispatchSettings ==
    { [DefaultSettings EXCEPT !.do_copy_clipboard = c, !.do_auto_save = d,
                              !.do_send_discord = w, !.do_send_telegram = t,
                              !.var_webhook = url, !.telegram_token = tok,
                              !.telegram_chat = chat] :
        c \in BOOLEAN, d \in BOOLEAN, w \in BOOLEAN, t \in BOOLEAN,
        url \in {<<>>, <<" ">>, WEBHOOK_URL},
        tok \in {<<>>, <<" ">>, BOT_TOKEN},
        chat \in {<<>>, CHAT_ID} }

InitDispatch ==
    /\ ui \in DispatchSettings
    /\ env = [sdk_ok |-> TRUE, now |-> 0, responses |-> PlainOutcomes]
    /\ InitStore(PROMPT)
    /\ InitWidgets

\* one answer is asked for and dispatched, and the Telegram test button
\* is pressed
NextDispatch ==
    \/ _test_ai_call(1)
    \/ test_read(1)
    \/ _build_llm(1)
    \/ llm_complete(1)
    \/ llm_reply(1)
    \/ post_answer(1)
    \/ post_disk(1)
    \/ post_discord(1)
    \/ post_telegram(1)
    \/ _test_telegram
    \/ _drain_ui_queue

SpecDispatch == InitDispatch /\ [][NextDispatch]_vars

\* ------------------------------------------------------ the disk log
\* datetime.now() passes to the next second
Tick ==
    /\ env.now < MaxClock
    /\ env' = [env EXCEPT !.now = env.now + 1]
    /\ UNCHANGED <<status_var, ui, q_ui, txt_ocr, txt_ai, preview, txt_log,
                   clipboard, logFiles, http, runs>>
    /\ UNCHANGED <<storeVars, llm, catalogVars>>

\* answers are asked for with the disk log as the only sink
InitLog ==
    /\ ui = [DefaultSettings EXCEPT !.do_copy_clipboard = FALSE]
    /\ env = [sdk_ok |-> TRUE, now |-> 0, responses |-> PlainOutcomes]
    /\ InitStore(PROMPT)
    /\ InitWidgets

NextLog ==
    \/ \E r \in Runs :
        \/ _test_ai_call(r)
        \/ test_read(r)
        \/ _build_llm(r)
        \/ llm_complete(r)
        \/ llm_reply(r)
        \/ post_answer(r)
        \/ post_disk(r)
        \/ post_discord(r)
        \/ post_telegram(r)
    \/ _drain_ui_queue
    \/ Tick

SpecLog == InitLog /\ [][NextLog]_vars

\* ------------------------------------------------- the network sinks
\* one answer is dispatched to the webhook and to the bot, both
\* configured, the endpoints answering with any status and body
InitHttp ==
    /\ ui = [DefaultSettings EXCEPT !.do_copy_clipboard = FALSE,
                                    !.do_auto_save = FALSE,
                                    !.do_send_discord = TRUE,
                                    !.do_send_telegram = TRUE,
                                    !.var_webhook = WEBHOOK_URL,
                                    !.telegram_token = BOT_TOKEN,
                                    !.telegram_chat = CHAT_ID]
    /\ env = [sdk_ok |-> TRUE, now |-> 0, responses |-> HttpOutcomes]
    /\ InitStore(PROMPT)
    /\ InitWidgets

SpecHttp == InitHttp /\ [][NextDispatch]_vars

\* -------------------------------------------------- merged_providers
\* the lists config.PROVIDERS may be: the one of the repository, and the
\* lists of up to two items, names repeated or not built in, model lists
\* empty, unsorted or with duplicates
ConfiguredItems ==
    { <<n, l>> : n \in {"OpenAI", "Gemini", "Mistral"},
                 l \in { <<>>, <<"gpt-4o", "gpt-4o">>,
                         <<"o3-mini", "gpt-4o-mini">>, <<"mistral-large">> } }

ConfiguredLists ==
    {CONFIG_PROVIDERS, <<>>}
    \cup { <<a>> : a \in ConfiguredItems }
    \cup { <<a, b>> : a \in ConfiguredItems, b \in ConfiguredItems }

InitProviders ==
    /\ \E c \in ConfiguredLists : InitCatalogOf(c)
    /\ promptsFile = AbsentFile
    /\ fileGhost = [class |-> "absent", obj |-> <<>>]
    /\ prompts = load_prompts(AbsentFile)
    /\ prompt_key_var = PROMPT
    /\ status_var = "Ready."
    /\ lastOp = NoOp
    /\ nOps = 0
    /\ llm = NoCall
    /\ InitPipeIdle

\* merged_providers is called once more
call_merged_providers ==
    /\ catalogGhost.calls < MaxCalls
    /\ LET m == merged_providers(config_providers)
       IN /\ providers' = m.result
          /\ config_providers' = m.config
    /\ catalogGhost' = [catalogGhost EXCEPT !.calls = catalogGhost.calls + 1]
    /\ UNCHANGED <<promptVars, llm, pipeVars>>

SpecProviders == InitProviders /\ [][call_merged_providers]_vars

\* ------------------------------------------------------- the region
\* the widths and heights the region fields may hold
Dimensions == {-1, 0, 1, 1200}

InitCapture ==
    /\ \E w \in Dimensions, h \in Dimensions :
           ui = [DefaultSettings EXCEPT !.var_w = w, !.var_h = h]
    /\ env = [sdk_ok |-> TRUE, now |-> 0, responses |-> PlainOutcomes]
    /\ InitStore(PROMPT)
    /\ InitWidgets

NextCapture ==
    \/ \E r \in Runs :
        \/ capture_once(r)
        \/ _capture_thread(r)
        \/ _capture_thread_put(r)
    \/ _drain_ui_queue

SpecCapture == InitCapture /\ [][NextCapture]_vars

\* ------------------------------------------------------- termination
\* one run of any kind is followed to its end; the worker thread keeps
\* running, each external call returning or failing, and the UI thread
\* keeps draining its queue
InitLive ==
    /\ \E p \in Profiles :
        /\ ui = p.ui
        /\ env = [sdk_ok |-> p.sdk_ok, now |-> 0, responses |-> PlainOutcomes]
        /\ InitStore(p.key)
    /\ InitWidgets

NextLive ==
    \/ capture_once(1)
    \/ solve_flow(1)
    \/ _test_ai_call(1)
    \/ test_read(1)
    \/ Worker(1)
    \/ _drain_ui_queue

SpecLive ==
    /\ InitLive
    /\ [][NextLive]_vars
    /\ WF_vars(test_read(1) \/ Worker(1))
    /\ WF_vars(_drain_ui_queue)

\* ======================================================= run claims
CaptureEvents == {"capture_ok", "capture_failed"}

SinkEvents ==
    {"clipboard_ok", "clipboard_failed", "disk_ok", "disk_raised",
     "discord_ok", "discord_failed", "telegram_ok", "telegram_failed"}

Has(ev, e) == \E i \in 1..Len(ev) : ev[i] = e

\* in ev, every event of the set later has an event of the set earlier
\* before it
Precedes(ev, earlier, later) ==
    \A i \in 1..Len(ev) :
        ev[i] \in later => \E j \in 1..(i - 1) : ev[j] \in earlier

Blank(s) == Strip(s) = <<>>

\* C1: in _post_answer, whatever sinks are enabled and whichever of them
\* fail, every enabled (and configured) sink is attempted and the call
\* returns normally; with the disk log enabled and the webhook failing,
\* the call has written the disk record and logged the webhook failure.
C1_FanOutIsolatesFailures ==
    LET ev == runs[1].events
    IN (runs[1].pc = "done" /\ Has(ev, "llm_ret")) =>
        /\ Has(ev, "post_done")
        /\ ui.do_copy_clipboard =>
               Has(ev, "clipboard_ok") \/ Has(ev, "clipboard_failed")
        /\ ui.do_auto_save => Has(ev, "disk_ok") \/ Has(ev, "disk_raised")
        /\ (ui.do_send_discord /\ ~Blank(ui.var_webhook)) =>
               Has(ev, "discord_ok") \/ Has(ev, "discord_failed")
        /\ (/\ ui.do_send_telegram
            /\ ~Blank(ui.telegram_token)
            /\ ~Blank(ui.telegram_chat)) =>
               Has(ev, "telegram_ok") \/ Has(ev, "telegram_failed")
        /\ (ui.do_auto_save /\ Has(ev, "discord_failed")) =>
               /\ Has(ev, "disk_ok")
               /\ \E i \in 1..Len(txt_log) :
                      /\ txt_log[i].by = 1
                      /\ txt_log[i].text = "Discord failed"

\* C2: in a solve run the capture and OCR step has finished before the
\* completion call is issued, the completion call has returned before
\* any sink delivery starts, and no request of the run to the webhook or
\* to the bot is issued before the completion has returned.
C2_SolveRunIsOrdered ==
    \A r \in Runs :
        runs[r].kind = "solve" =>
            /\ Precedes(runs[r].events, CaptureEvents, {"llm_call"})
            /\ Precedes(runs[r].events, {"llm_call"}, {"llm_ret"})
            /\ Precedes(runs[r].events, {"llm_ret"}, SinkEvents)
            /\ \A q \in http :
                   q.by = r =>
                       IF q.to = "vendor"
                       THEN \E e \in CaptureEvents : Has(runs[r].events, e)
                       ELSE Has(runs[r].events, "llm_ret")

C2_Witness ==
    \E r \in Runs :
        /\ runs[r].kind = "solve"
        /\ Has(runs[r].events, "capture_ok")
        /\ Has(runs[r].events, "discord_failed")
        /\ Has(runs[r].events, "telegram_ok")
        /\ Has(runs[r].events, "post_done")

\* C3: a solve run whose capture or OCR step failed issues no completion
\* call and delivers to no sink, whatever the OCR box held before.
C3_FailedCaptureEndsRun ==
    \A r \in Runs :
        (runs[r].kind = "solve" /\ Has(runs[r].events, "capture_failed")) =>
            /\ ~Has(runs[r].events, "llm_call")
            /\ \A e \in SinkEvents : ~Has(runs[r].events, e)
            /\ \A q \in http : q.by # r

\* C4: while the bot token or the chat id is blank, no request to the
\* Telegram API has been issued, by the answer dispatch or by the test
\* button; every request issued carries a token and a chat id.
C4_NoTelegramRequestWithoutCredentials ==
    /\ (Blank(ui.telegram_token) \/ Blank(ui.telegram_chat)) =>
           \A q \in http : q.to # "telegram"
    /\ \A q \in http : q.to = "telegram" => q.url # <<>> /\ q.chat # <<>>

C4_Witness ==
    /\ ui.do_send_telegram
    /\ Blank(ui.telegram_token)
    /\ ~Blank(ui.telegram_chat)
    /\ Has(runs[1].events, "post_done")
    /\ status_var = "Telegram failed"

\* C5: an answer dispatched with the Telegram sink enabled and the token
\* or the chat id blank leaves a failure of that sink in the log.
C5_MissingCredentialsRecorded ==
    (/\ Has(runs[1].events, "post_done")
     /\ ui.do_send_telegram
     /\ Blank(ui.telegram_token) \/ Blank(ui.telegram_chat)) =>
        \E i \in 1..Len(txt_log) :
            txt_log[i].by = 1 /\ txt_log[i].text = "Telegram failed"

\* the events of a run that are failures
FailureEvents ==
    {"capture_failed", "llm_raised", "clipboard_failed", "disk_raised",
     "discord_failed", "telegram_failed"}

\* the messages of the program that name the stage of a failure; it has
\* none for the clipboard and none for the disk log
StageMessages(f) ==
    CASE f = "capture_failed" -> {"OCR/Capture error"}
      [] f = "llm_raised" -> {"AI error"}
      [] f = "discord_failed" -> {"Discord failed"}
      [] f = "telegram_failed" -> {"Telegram failed"}
      [] OTHER -> {}

\* the texts a step adds to the status queue and to the log box
Said ==
    { q_ui'[i].payload :
        i \in { j \in (Len(q_ui) + 1)..Len(q_ui') :
                  q_ui'[j].kind \in {"status", "error"} } }
    \cup { txt_log'[i].text : i \in 1..(Len(txt_log') - Len(txt_log)) }

\* C11: the step in which a stage of a run fails (capture/OCR, LLM
\* construction or completion, clipboard, disk log, webhook, Telegram)
\* adds to the status queue or to the log a message that names that
\* stage.
C11_EveryFailureNamesItsStage ==
    [][\A r \in Runs :
        /\ \A f \in FailureEvents :
               (Has(runs'[r].events, f) /\ ~Has(runs[r].events, f)) =>
                   Said \cap StageMessages(f) # {}
        /\ (runs[r].pc = "build" /\ runs'[r].pc = "done") =>
               Said \cap {"Missing API key", "LLM init failed"} # {}]_vars

\* C12: with the disk log enabled, every answer whose log was written
\* has its own record in the log directory, whatever answers were logged
\* after it and whenever they were.
C12_EveryAnswerKeepsItsRecord ==
    \A r \in Runs :
        Has(runs[r].events, "disk_ok") =>
            \E name \in DOMAIN logFiles :
                logFiles[name] = [by |-> r, ocr |-> runs[r].txt,
                                  answer |-> runs[r].ans]

\* the lines of the log box that run r wrote with the text given
LinesOf(r, text) ==
    { i \in 1..Len(txt_log) : txt_log[i].by = r /\ txt_log[i].text = text }

\* d is the detail of a failure on response o: its status, and the body
\* cut after 200 characters
CarriesResponse(d, o) ==
    /\ d.status = o.status
    /\ Len(d.text) = IF Len(o.text) > 200 THEN 200 ELSE Len(o.text)
    /\ \A i \in 1..Len(d.text) : d.text[i] = o.text[i]

\* C15: a webhook response with status >= 300 is logged as a failure
\* whose detail carries the status and the truncated body, one with
\* status < 300 is logged as sent; a Telegram response with status >= 300
\* is logged as a failure with the same detail, one with status < 300
\* leaves no failure.
C15_StatusDecidesOutcome ==
    \A r \in Runs :
        LET ev == runs[r].events
            d == runs[r].discord_resp
            t == runs[r].telegram_resp
        IN /\ ((Has(ev, "discord_ok") \/ Has(ev, "discord_failed"))
                /\ ~d.exc) =>
                  IF d.status >= 300
                  THEN /\ Has(ev, "discord_failed")
                       /\ LinesOf(r, "Sent to Discord.") = {}
                       /\ \E i \in LinesOf(r, "Discord failed") :
                              CarriesResponse(txt_log[i].detail, d)
                  ELSE /\ Has(ev, "discord_ok")
                       /\ LinesOf(r, "Discord failed") = {}
                       /\ LinesOf(r, "Sent to Discord.") # {}
           /\ ((Has(ev, "telegram_ok") \/ Has(ev, "telegram_failed"))
                /\ ~t.exc) =>
                  IF t.status >= 300
                  THEN /\ Has(ev, "telegram_failed")
                       /\ \E i \in LinesOf(r, "Telegram failed") :
                              CarriesResponse(txt_log[i].detail, t)
                  ELSE /\ Has(ev, "telegram_ok")
                       /\ LinesOf(r, "Telegram failed") = {}

C15_Witness ==
    /\ Has(runs[1].events, "post_done")
    /\ runs[1].discord_resp.status = 300
    /\ runs[1].discord_resp.text = LongBody
    /\ runs[1].telegram_resp.status = 299
    /\ Has(runs[1].events, "discord_failed")
    /\ Has(runs[1].events, "telegram_ok")

\* C17: grab_image is never called with a width or a height below 1,
\* whatever the region fields hold.
C17_NoGrabOfEmptyRegion ==
    \A r \in Runs :
        runs[r].grab.called =>
            runs[r].grab.width >= 1 /\ runs[r].grab.height >= 1

C19_SolveUsesItsOwnCapture ==
    \A r \in Runs :
        (/\ runs[r].kind = "solve"
         /\ Has(runs[r].events, "capture_ok")
         /\ Has(runs[r].events, "llm_call")) =>
            runs[r].src = r /\ runs[r].txt = Strip(runs[r].text)

\* no capture is between its two insertions into the queue
NoCaptureMidway == \A r \in Runs : runs[r].pc # "put_ocr"

\* C20: when the UI queue is drained and no capture is between its
\* insertions, the preview and the OCR box show the same capture, and
\* never a capture that failed.
C20_PreviewMatchesText ==
    (q_ui = <<>> /\ NoCaptureMidway) =>
        /\ preview = txt_ocr.of
        /\ preview # 0 => Has(runs[preview].events, "capture_ok")

\* ============================================================ LLM claims
\* C6: complete with a template that has no placeholder for the input
\* text, or malformed substitution syntax, raises before any vendor call:
\* no vendor request is sent for a template without {text}, and no
\* request is sent whose prompt does not contain the input text.
C6_NoRequestWithoutPlaceholder ==
    llm.request # None =>
        /\ Contains(llm.template, <<"{", "t", "}">>)
        /\ Contains(llm.request, llm.text)


\* the vendor has replied to the call followed, without raising
Replied ==
    /\ llm.pc \in {"returned", "raised"}
    /\ llm.request # None
    /\ ~llm.reply.raised

\* the concatenation of the strings of a sequence, nothing in between
RECURSIVE Concat(_)
Concat(parts) ==
    IF parts = <<>> THEN <<>> ELSE Head(parts) \o Concat(Tail(parts))

\* C13: for Anthropic, complete returns the trimmed concatenation, in
\* response order, of the text segments of the response, nothing being
\* inserted between two segments.
C13_AnthropicConcatenatesSegments ==
    (Replied /\ llm.provider = "Anthropic") =>
        /\ llm.pc = "returned"
        /\ llm.result = Strip(Concat(TextParts(OrEmpty(llm.reply.content))))

\* the answer field of the reply is empty or missing
EmptyAnswer ==
    CASE llm.provider = "OpenAI" ->
            llm.reply.choices = <<>> \/ llm.reply.choices[1] = None
      [] llm.provider = "Anthropic" ->
            llm.reply.content = None \/ llm.reply.content = <<>>
      [] OTHER -> ~llm.reply.hastext

\* C14: for each provider, a response whose answer field is empty or
\* missing makes complete return the empty string, and not raise.
C14_EmptyAnswerIsEmptyString ==
    (Replied /\ EmptyAnswer) => llm.pc = "returned" /\ llm.result = <<>>

\* ================================================ provider list claims
\* the strings of l are in strictly increasing order
Increasing(l) == \A i \in 1..(Len(l) - 1) : Rank(l[i]) < Rank(l[i + 1])

Names(d) == {d[i].name : i \in 1..Len(d)}

\* r is the mapping defaults overlaid by the mapping file
Overlaid(r, defaults, file) ==
    /\ Names(r) = Names(defaults) \cup Names(file)
    /\ Cardinality(Names(r)) = Len(r)
    /\ \A e \in Entries(file) : e \in Entries(r)
    /\ \A e \in Entries(defaults) : e.name \notin Names(file) => e \in Entries(r)

JustLoaded == lastOp.op \in {"none", "restart"}

\* C7: after every mutation of the prompt store made through the editor
\* (new, save, delete) the prompts file holds exactly the in-memory
\* mapping.
C7_EveryMutationPersisted ==
    lastOp.op \in {"new", "save", "delete"} =>
        /\ promptsFile.kind = "file"
        /\ fileGhost.class = "object"
        /\ fileGhost.obj = prompts

\* C8: save_prompts(m) followed by load_prompts() returns a mapping that
\* holds every entry of m with the same name and body: when the program
\* is started again right after a save or a delete wrote the store m,
\* the loaded store holds every entry of m.
C8_SaveLoadRoundTrip ==
    (lastOp.op = "restart" /\ lastOp.prevOp \in {"save", "delete"}) =>
        Entries(lastOp.before) \subseteq Entries(prompts)

C8_Witness ==
    /\ lastOp.op = "restart"
    /\ lastOp.prevOp = "save"
    /\ \E e \in Entries(lastOp.before) :
        /\ e.body = <<"\\", "n", "\"">>
        /\ e \in Entries(prompts)
    /\ \E e \in Entries(lastOp.before) :
        /\ \E i \in 1..Len(e.body) : e.body[i] = "E"
        /\ e.name \notin Names(CONFIG_PROMPTS)

\* C9: _prompt_new adds exactly one key that the store did not hold and
\* leaves every entry it held as it was; a creation that follows another
\* one yields a different key and keeps the first: "New Prompt 2" after
\* "New Prompt", unless the store already held "New Prompt 2".
C9_NewAddsOneFreshKey ==
    lastOp.op = "new" =>
        /\ ~HasKey(lastOp.before, lastOp.key)
        /\ HasKey(prompts, lastOp.key)
        /\ Len(prompts) = Len(lastOp.before) + 1
        /\ Cardinality(Names(prompts)) = Len(prompts)
        /\ \A i \in 1..Len(lastOp.before) : prompts[i] = lastOp.before[i]
        /\ lastOp.prevOp = "new" =>
            /\ lastOp.prevKey # lastOp.key
            /\ HasKey(prompts, lastOp.prevKey)
            /\ (lastOp.prevKey = <<"N">>
                    /\ ~HasKey(lastOp.before, <<"N", " ", "2">>))
                => lastOp.key = <<"N", " ", "2">>

C9_Witness ==
    /\ lastOp.op = "new"
    /\ lastOp.prevOp = "new"
    /\ lastOp.prevKey = <<"N">>
    /\ lastOp.key = <<"N", " ", "2">>
    /\ Len(lastOp.before) >= 3

\* C10: load_prompts always returns a mapping: the compiled-in defaults
\* when the prompts file is absent, unreadable, not valid JSON or not a
\* JSON object, and the defaults overlaid by the file, whose entries win,
\* when the file is a JSON object.
C10_LoadFallsBackOrOverlays ==
    JustLoaded =>
        IF fileGhost.class = "object"
        THEN Overlaid(prompts, CONFIG_PROMPTS, fileGhost.obj)
        ELSE prompts = CONFIG_PROMPTS

C10_Witness ==
    /\ lastOp.op = "restart"
    /\ fileGhost.class = "object"
    /\ \E e \in Entries(fileGhost.obj) :
        /\ e.name = PROMPT
        /\ e \notin Entries(CONFIG_PROMPTS)
        /\ e \in Entries(prompts)

\* a step of _prompt_delete whose name was not in the store
DeleteOfAbsentName ==
    /\ nOps' # nOps
    /\ lastOp'.op = "delete_absent"

\* the name a delete removed is not in the store the next start loads
DeletedStaysDeleted ==
    (lastOp.op = "restart" /\ lastOp.prevOp \in {"delete", "delete_raised"})
        => ~HasKey(prompts, lastOp.prevKey)

\* C21: deleting a prompt is durable: when the program is started again
\* after _prompt_delete removed a name from the store, the loaded store
\* does not hold that name, whichever name it was, the names of the
\* compiled-in defaults included; and a _prompt_delete of a name that is
\* not in the store changes neither the store nor the prompts file.
C21_DeleteIsDurable ==
    /\ []DeletedStaysDeleted
    /\ [][DeleteOfAbsentName => UNCHANGED <<prompts, promptsFile>>]_vars

====
